---- MODULE Spec2Model ----
(***************************************************************************)
(* The benefit-eligibility portal: the express handlers of                 *)
(* server/routes.ts over the tables of shared/schema.ts, reached through   *)
(* DatabaseStorage (server/storage.ts).                                    *)
(*                                                                         *)
(* Every request is one atomic action: the handlers await one storage call *)
(* after another and the claims checked here are about single requests.   *)
(*                                                                         *)
(* A nullable column holds Null (<<>>) or Some(v) (<<v>>).  No handler     *)
(* compares or computes with a timestamp, so every Date is the one value   *)
(* Date.  The columns that no handler reads or computes with               *)
(* (applicantPhone, addressLine1, city, state, zip, and the                *)
(* createdAt/uploadedAt defaults) are left out of the rows.                *)
(***************************************************************************)
EXTENDS Integers, Sequences, FiniteSets, TLC

VARIABLES users, programs, incomeLimits, applications, documents,
          activityEvents, session, writes, last

vars == <<users, programs, incomeLimits, applications, documents,
          activityEvents, session, writes, last>>

db == <<users, programs, incomeLimits, applications, documents, activityEvents>>

----------------------------------------------------------------------------
(* Bounds of the model *)

\* at most this many applications are started
MaxApps == 2
\* at most this many requests that write the database are served
MaxWrites == 3

----------------------------------------------------------------------------
(* Values *)

Null == <<>>
Some(v) == <<v>>

\* JavaScript truthiness of a number | null (app.householdSize && ...)
Truthy(x) == x # Null /\ x[1] # 0

Range(s) == {s[i] : i \in DOMAIN s}

applicationStatuses == {"Draft", "Submitted", "NeedsInfo", "Approved", "Denied"}
systemResults == {"Eligible", "NotEligible", "NeedsReview"}
activityTypes == {"Note", "System", "RequestInfo", "StatusChange"}

\* seedDatabase: limits for household sizes 1..6, $30,000 + $5,000 per person
baseLimit == 3000000
perPersonCents == 500000
seedHouseholdSizes == 6
SeedLimitCents(i) == baseLimit + (i * perPersonCents)

\* randomBytes(16).toString("hex"): 128-bit random values are taken to be
\* pairwise distinct and unguessable; randomBytes(n) is the n-th one generated
randomBytes(n) == <<"random", n>>
RandomTokens == {randomBytes(n) : n \in 1..MaxApps}
\* a token string chosen by a client, which the server never generated
ForgedToken == <<"chosen", 0>>
Tokens == RandomTokens \cup {ForgedToken}

\* new Date()
Date == "Date"

----------------------------------------------------------------------------
(* Request inputs *)

\* who sends a request: a client without a session cookie, or the reviewer's
\* browser, whose session is logged in or not
Callers == {"anonymous", "browser"}

adminEmail == "admin@example.com"
adminPassword == "admin123"
Credentials == {[email |-> adminEmail, password |-> adminPassword],
                [email |-> adminEmail, password |-> "guess"],
                [email |-> "nobody@example.com", password |-> adminPassword]}

Ann == <<"A", "n", "n">>
Bob == <<"B", "o", "b">>
\* the e-mail strings of the inputs that zod's .email() accepts
WellFormedEmails == {"ann@example.com", "bob@example.com"}

\* bodies of POST /api/applications/start; programId Null is a value that
\* Number() turns into NaN
StartBodies == {[programId |-> Some(1), applicantName |-> Ann, applicantEmail |-> "ann@example.com"],
                [programId |-> Some(2), applicantName |-> Bob, applicantEmail |-> "bob@example.com"],
                [programId |-> Some(1), applicantName |-> <<>>, applicantEmail |-> "ann@example.com"],
                [programId |-> Some(1), applicantName |-> Ann, applicantEmail |-> "ann-at-example"],
                [programId |-> Null, applicantName |-> Ann, applicantEmail |-> "ann@example.com"]}

\* income exactly at, and one cent over, the seeded limit for a household of 1
AtLimit == SeedLimitCents(1)
OverLimit == SeedLimitCents(1) + 1

\* bodies of PATCH /api/applications/by-token/:token.  The wizard sends the
\* form fields; any client can send any JSON object.
WizardBodies == {[householdSize |-> Some(1), annualIncomeCents |-> Some(AtLimit)],
                 [householdSize |-> Some(1), annualIncomeCents |-> Some(OverLimit)],
                 [householdSize |-> Some(0), annualIncomeCents |-> Some(AtLimit)],
                 [householdSize |-> Some(1)]}
ForgedBodies == {[status |-> "Bogus"],
                 [systemResult |-> Some("Eligible"), computedLimitCents |-> Some(1),
                  ruleVersion |-> Some("forged"), submittedAt |-> Null]}

\* bodies of POST /api/applications/:id/decision
DecisionBodies == {[status |-> "Approved", note |-> "ok"],
                   [status |-> "NeedsInfo", note |-> "ok"],
                   [status |-> "Denied", note |-> ""],
                   [status |-> "Bogus", note |-> "ok"]}

\* bodies of POST /api/programs/:id/limits
LimitBodies == {[householdSize |-> 1, limitCents |-> 2000000, versionLabel |-> "2025-V2"]}

\* query strings of GET /api/applications
ListQueries == {[status |-> "", programId |-> 0, search |-> <<>>],
                [status |-> "Submitted", programId |-> 1, search |-> <<"n", "n">>]}

AppIds == 1..(MaxApps + 1)

\* the tokens a client can put in a body: its own string, or a token that the
\* server has handed out
KnownTokens == {ForgedToken} \cup {randomBytes(n) : n \in 1..Len(applications)}
UpdateBodies == WizardBodies \cup ForgedBodies \cup {[applicantToken |-> t] : t \in KnownTokens}

----------------------------------------------------------------------------
(* storage.ts *)

\* hashPassword / comparePassword: scrypt of the password under the stored salt
hashPassword(password, salt) == <<"scrypt", password, salt>>
comparePassword(stored, supplied) == stored.hash = hashPassword(supplied, stored.salt)

getUserByEmail(email) == {u \in Range(users) : u.email = email}

getProgram(id) == {p \in Range(programs) : p.id = id}

\* select ... where program_id = ? and household_size = ?: the matching rows;
\* the caller takes the first row of a result that has no ORDER BY
getIncomeLimitForHousehold(programId, size) ==
  {l \in Range(incomeLimits) : l.programId = programId /\ l.householdSize = size}

getApplicationByToken(token) ==
  {i \in DOMAIN applications : applications[i].applicantToken = token}

getApplication(id) == {i \in DOMAIN applications : applications[i].id = id}

getDocuments(applicationId) == SelectSeq(documents, LAMBDA d : d.applicationId = applicationId)

\* ... order by created_at desc: the newest event first
Reverse(s) == [i \in 1..Len(s) |-> s[Len(s) + 1 - i]]
getActivityEvents(applicationId) ==
  Reverse(SelectSeq(activityEvents, LAMBDA e : e.applicationId = applicationId))

\* like '%search%'
Contains(text, search) ==
  \E i \in 0..Len(text) : i + Len(search) <= Len(text)
                          /\ SubSeq(text, i + 1, i + Len(search)) = search

getApplications(filters) ==
  {a \in Range(applications) :
      /\ (filters.status # "" => a.status = filters.status)
      /\ (filters.programId # 0 => a.programId = filters.programId)
      /\ (filters.search # <<>> => Contains(a.applicantName, filters.search))}

\* mutant: the column is not unique
NoUniqueViolation(id, row) == FALSE

\* applications.applicant_token is unique(): the insert or update of a row
\* whose token another row holds is rejected
UniqueViolation(id, row) ==
  \E j \in DOMAIN applications : j # id /\ applications[j].applicantToken = row.applicantToken

\* db.update(applications).set({ ...updates, updatedAt: new Date() }): the
\* columns named in updates are overwritten, keys that are no column ignored
SetColumns(row, updates) ==
  [k \in DOMAIN row |-> IF k \in DOMAIN updates THEN updates[k] ELSE row[k]]

updateApplication(id, updates) ==
  LET row == SetColumns(SetColumns(applications[id], updates), [updatedAt |-> Some(Date)])
  IN  IF UniqueViolation(id, row) THEN applications
      ELSE [applications EXCEPT ![id] = row]

UpdateRejected(id, updates) ==
  UniqueViolation(id, SetColumns(applications[id], updates))

\* mutant: the insert leaves system_result to its default, null
createApplicationWithoutResult(app) ==
  Append(applications,
         [id |-> Len(applications) + 1,
          programId |-> app.programId,
          applicantName |-> app.applicantName,
          applicantEmail |-> app.applicantEmail,
          applicantToken |-> app.applicantToken,
          householdSize |-> Null,
          annualIncomeCents |-> Null,
          computedLimitCents |-> Null,
          systemResult |-> Null,
          ruleVersion |-> Null,
          status |-> app.status,
          submittedAt |-> Null,
          reviewedBy |-> Null,
          updatedAt |-> Some(Date)])

\* db.insert(applications).values(app): serial id, column defaults
createApplication(app) ==
  LET row == [id |-> Len(applications) + 1,
              programId |-> app.programId,
              applicantName |-> app.applicantName,
              applicantEmail |-> app.applicantEmail,
              applicantToken |-> app.applicantToken,
              householdSize |-> Null,
              annualIncomeCents |-> Null,
              computedLimitCents |-> Null,
              systemResult |-> app.systemResult,
              ruleVersion |-> Null,
              status |-> app.status,
              submittedAt |-> Null,
              reviewedBy |-> Null,
              updatedAt |-> Some(Date)]
  IN  IF UniqueViolation(0, row) THEN applications ELSE Append(applications, row)

createActivityEvent(event) ==
  Append(activityEvents, [id |-> Len(activityEvents) + 1] @@ event)

createDocument(doc) == Append(documents, [id |-> Len(documents) + 1] @@ doc)

createProgram(program) == Append(programs, [id |-> Len(programs) + 1] @@ program)

createIncomeLimit(limit) == Append(incomeLimits, [id |-> Len(incomeLimits) + 1] @@ limit)

----------------------------------------------------------------------------
(* The state after registerRoutes: seedDatabase has run on an empty database *)

seedDatabase ==
  /\ users = <<[id |-> 1, email |-> adminEmail,
                passwordHash |-> [hash |-> hashPassword(adminPassword, "salt"), salt |-> "salt"],
                role |-> "Admin"]>>
  /\ programs = <<[id |-> 1, name |-> "Example Rebate Program", regionLabel |-> "Statewide"]>>
  /\ incomeLimits = [i \in 1..seedHouseholdSizes |->
                       [id |-> i, programId |-> 1, householdSize |-> i,
                        limitCents |-> SeedLimitCents(i), versionLabel |-> "2024-V1"]]

Init ==
  /\ seedDatabase
  /\ applications = <<>>
  /\ documents = <<>>
  /\ activityEvents = <<>>
  /\ session = Null
  /\ writes = 0
  /\ last = [op |-> "listen", code |-> 0]

----------------------------------------------------------------------------
(* routes.ts: the handlers, one action per request *)

\* mutant: a session cookie counts, logged in or not
isAuthenticatedByCookie(caller) == caller = "browser"

\* req.isAuthenticated(): the request carries the cookie of a logged-in session
isAuthenticated(caller) == caller = "browser" /\ session # Null

CanWrite == writes < MaxWrites

\* a request that is answered without a write to the database
Answer(response) ==
  /\ last' = response
  /\ UNCHANGED <<db, session, writes>>

\* POST /api/auth/login: passport's LocalStrategy
Login(cred) ==
  LET found == getUserByEmail(cred.email) IN
  IF \E u \in found : comparePassword(u.passwordHash, cred.password)
  THEN /\ session' = Some((CHOOSE u \in found : TRUE).id)
       /\ last' = [op |-> "login", code |-> 200]
       /\ UNCHANGED <<db, writes>>
  ELSE Answer([op |-> "login", code |-> 401])

\* POST /api/auth/logout
Logout ==
  /\ session # Null
  /\ session' = Null
  /\ last' = [op |-> "logout", code |-> 200]
  /\ UNCHANGED <<db, writes>>

\* POST /api/programs
ProgramsCreate(caller, body) ==
  IF ~isAuthenticated(caller)
  THEN Answer([op |-> "programs.create", code |-> 401])
  ELSE /\ CanWrite
       /\ programs' = createProgram(body)
       /\ writes' = writes + 1
       /\ last' = [op |-> "programs.create", caller |-> caller, code |-> 201]
       /\ UNCHANGED <<users, incomeLimits, applications, documents, activityEvents, session>>

\* POST /api/programs/:id/limits
IncomeLimitsCreate(caller, programId, body) ==
  IF ~isAuthenticated(caller)
  THEN Answer([op |-> "incomeLimits.create", code |-> 401])
  ELSE /\ CanWrite
       /\ incomeLimits' = createIncomeLimit(body @@ [programId |-> programId])
       /\ writes' = writes + 1
       /\ last' = [op |-> "incomeLimits.create", caller |-> caller, code |-> 201]
       /\ UNCHANGED <<users, programs, applications, documents, activityEvents, session>>

\* api.applications.start.input.parse(req.body): startApplicationSchema
StartInputValid(body) ==
  /\ body.programId # Null
  /\ Len(body.applicantName) >= 1
  /\ body.applicantEmail \in WellFormedEmails

\* POST /api/applications/start
Start(body) ==
  IF ~StartInputValid(body)
  THEN Answer([op |-> "start", body |-> body, code |-> 500])
  ELSE LET token == randomBytes(Len(applications) + 1)
           app == [programId |-> body.programId[1],
                   applicantName |-> body.applicantName,
                   applicantEmail |-> body.applicantEmail,
                   applicantToken |-> token,
                   status |-> "Draft",
                   systemResult |-> Some("NeedsReview")]
       IN  IF UniqueViolation(0, app)
           THEN Answer([op |-> "start", body |-> body, code |-> 500])
           ELSE /\ CanWrite
                /\ Len(applications) < MaxApps
                /\ applications' = createApplication(app)
                /\ writes' = writes + 1
                /\ last' = [op |-> "start", body |-> body, code |-> 201, token |-> token,
                            id |-> Len(applications')]
                /\ UNCHANGED <<users, programs, incomeLimits, documents, activityEvents,
                               session>>

\* GET /api/applications/by-token/:token
GetByToken(token) ==
  IF getApplicationByToken(token) = {}
  THEN Answer([op |-> "getByToken", token |-> token, code |-> 404])
  ELSE \E id \in getApplicationByToken(token) :
         Answer([op |-> "getByToken", token |-> token, code |-> 200,
                 app |-> applications[id],
                 documents |-> getDocuments(id),
                 activityEvents |-> getActivityEvents(id)])

\* public-wizard.tsx: once the application has loaded, a status other than
\* Draft and NeedsInfo sends the browser to the status page
WizardRedirects(status) == status # "Draft" /\ status # "NeedsInfo"

\* WizardPage at /apply/:token: useApplicationByToken, then the effect
WizardPage(token) ==
  /\ getApplicationByToken(token) # {}
  /\ \E id \in getApplicationByToken(token) :
       Answer([op |-> "wizard", id |-> id, code |-> 200,
               location |-> IF WizardRedirects(applications[id].status)
                            THEN <<"/status/", token>> ELSE <<"/apply/", token>>])

\* mutant: only a Draft can be edited
CanEditDraftOnly(status) == status = "Draft"

\* the edit gate of updateByToken
CanEdit(status) == status = "Draft" \/ status = "NeedsInfo"

\* PATCH /api/applications/by-token/:token
UpdateByToken(token) ==
  IF getApplicationByToken(token) = {}
  THEN Answer([op |-> "updateByToken", code |-> 404])
  ELSE \E id \in getApplicationByToken(token) :
         IF ~CanEdit(applications[id].status)
         THEN Answer([op |-> "updateByToken", id |-> id,
                      code |-> 403, message |-> "Cannot edit submitted application"])
         ELSE \E body \in UpdateBodies :
              IF UpdateRejected(id, body)
              THEN Answer([op |-> "updateByToken", id |-> id, body |-> body, code |-> 500])
              ELSE /\ CanWrite
                   /\ applications' = updateApplication(id, body)
                   /\ writes' = writes + 1
                   /\ last' = [op |-> "updateByToken", id |-> id, body |-> body, code |-> 200]
                   /\ UNCHANGED <<users, programs, incomeLimits, documents, activityEvents,
                                  session>>

\* POST /api/applications/by-token/:token/upload; hasFile: multer found a file
Upload(token, hasFile) ==
  IF getApplicationByToken(token) = {} \/ ~hasFile
  THEN Answer([op |-> "upload", code |-> 400])
  ELSE /\ CanWrite
       /\ \E id \in getApplicationByToken(token) :
            documents' = createDocument([applicationId |-> id, filename |-> "paystub.pdf"])
       /\ writes' = writes + 1
       /\ last' = [op |-> "upload", code |-> 200]
       /\ UNCHANGED <<users, programs, incomeLimits, applications, activityEvents, session>>

\* mutant: an income equal to the limit is not eligible
EligibilityStrict(annualIncomeCents, limitCents) ==
  IF annualIncomeCents < limitCents THEN "Eligible" ELSE "NotEligible"

\* the comparison of submitByToken
Eligibility(annualIncomeCents, limitCents) ==
  IF annualIncomeCents <= limitCents THEN "Eligible" ELSE "NotEligible"

\* whether submitByToken looks a limit up at all
HasFinancials(app) == Truthy(app.householdSize) /\ app.annualIncomeCents # Null

\* mutant: without a limit the result defaults to NotEligible
CalculationDefaultsNotEligible(app, limit) ==
  IF limit = Null
  THEN [systemResult |-> Some("NotEligible"), computedLimitCents |-> Null, ruleVersion |-> Null]
  ELSE [systemResult |-> Some(IF app.annualIncomeCents[1] <= limit[1].limitCents
                                THEN "Eligible" ELSE "NotEligible"),
        computedLimitCents |-> Some(limit[1].limitCents),
        ruleVersion |-> Some(limit[1].versionLabel)]

\* the calculation of submitByToken, limit being Null or the row found
Calculation(app, limit) ==
  IF limit = Null
  THEN [systemResult |-> Some("NeedsReview"), computedLimitCents |-> Null, ruleVersion |-> Null]
  ELSE [systemResult |-> Some(Eligibility(app.annualIncomeCents[1], limit[1].limitCents)),
        computedLimitCents |-> Some(limit[1].limitCents),
        ruleVersion |-> Some(limit[1].versionLabel)]

\* the rows submitByToken may get from getIncomeLimitForHousehold
LimitsFound(app) ==
  IF HasFinancials(app)
  THEN LET rows == getIncomeLimitForHousehold(app.programId, app.householdSize[1])
       IN  IF rows = {} THEN {Null} ELSE {Some(l) : l \in rows}
  ELSE {Null}

\* mutant: the event of a submit is attributed to the seeded admin
SystemEventByAdmin(id, result) ==
  [applicationId |-> id, type |-> "System",
   message |-> <<"Application submitted. System calculation: ", result>>,
   createdByUserId |-> Some(1)]

\* the activity event of a submit
SystemEvent(id, result) ==
  [applicationId |-> id, type |-> "System",
   message |-> <<"Application submitted. System calculation: ", result>>,
   createdByUserId |-> Null]

\* POST /api/applications/by-token/:token/submit
SubmitByToken(token) ==
  IF getApplicationByToken(token) = {}
  THEN Answer([op |-> "submitByToken", token |-> token, code |-> 404])
  ELSE /\ CanWrite
       /\ \E id \in getApplicationByToken(token) :
          \E limit \in LimitsFound(applications[id]) :
            LET calc == Calculation(applications[id], limit)
                updates == [status |-> "Submitted", submittedAt |-> Some(Date)] @@ calc
            IN  /\ applications' = updateApplication(id, updates)
                /\ activityEvents' = createActivityEvent(SystemEvent(id, calc.systemResult[1]))
                /\ last' = [op |-> "submitByToken", token |-> token, id |-> id,
                            code |-> 200]
       /\ writes' = writes + 1
       /\ UNCHANGED <<users, programs, incomeLimits, documents, session>>

\* GET /api/applications
ApplicationsList(caller) ==
  IF ~isAuthenticated(caller)
  THEN Answer([op |-> "list", code |-> 401])
  ELSE \E query \in ListQueries :
         Answer([op |-> "list", caller |-> caller, code |-> 200,
                 apps |-> {[app |-> a, program |-> getProgram(a.programId)]
                            : a \in getApplications(query)}])

\* GET /api/applications/:id
ApplicationsGet(caller) ==
  IF ~isAuthenticated(caller)
  THEN Answer([op |-> "get", code |-> 401])
  ELSE \E id \in AppIds :
    IF getApplication(id) = {}
    THEN Answer([op |-> "get", caller |-> caller, code |-> 404])
    ELSE LET app == applications[id]
             found == IF Truthy(app.householdSize)
                      THEN getIncomeLimitForHousehold(app.programId, app.householdSize[1])
                      ELSE {}
         IN  \E snapshot \in (IF found = {} THEN {Null} ELSE {Some(l) : l \in found}) :
               Answer([op |-> "get", caller |-> caller, id |-> id, code |-> 200,
                       app |-> app,
                       documents |-> getDocuments(id),
                       activityEvents |-> getActivityEvents(id),
                       program |-> getProgram(app.programId),
                       incomeLimitSnapshot |-> snapshot])

\* mutant: every decision is logged as a StatusChange
DecisionEventTypeStatusChange(status) == "StatusChange"

\* the type of the activity event of a decision
DecisionEventType(status) == IF status = "NeedsInfo" THEN "RequestInfo" ELSE "StatusChange"

\* POST /api/applications/:id/decision
Decision(caller) ==
  IF ~isAuthenticated(caller)
  THEN Answer([op |-> "decision", code |-> 401])
  ELSE \E id \in AppIds :
    IF getApplication(id) = {}
    THEN Answer([op |-> "decision", caller |-> caller, code |-> 404])
    ELSE /\ CanWrite
         /\ \E body \in DecisionBodies :
              /\ applications' = updateApplication(id, [status |-> body.status,
                                                         reviewedBy |-> Some(session[1])])
              /\ activityEvents' = createActivityEvent(
                   [applicationId |-> id,
                    type |-> DecisionEventType(body.status),
                    message |-> <<"Status changed to ", body.status, ". Note: ", body.note>>,
                    createdByUserId |-> Some(session[1])])
              /\ last' = [op |-> "decision", caller |-> caller, id |-> id, body |-> body,
                          code |-> 200]
         /\ writes' = writes + 1
         /\ UNCHANGED <<users, programs, incomeLimits, documents, session>>

\* a CSV line of the export; cents / 100 with two decimals is <<dollars, cents>>
CsvRow(a) ==
  <<a.id, a.applicantName, a.applicantEmail, a.programId, a.status,
    IF a.systemResult = Null THEN "" ELSE a.systemResult[1],
    IF Truthy(a.annualIncomeCents)
      THEN <<a.annualIncomeCents[1] \div 100, a.annualIncomeCents[1] % 100>> ELSE <<>>,
    IF Truthy(a.householdSize) THEN a.householdSize ELSE <<>>,
    a.submittedAt>>

\* GET /api/exports/applications
Export(caller) ==
  IF ~isAuthenticated(caller)
  THEN Answer([op |-> "export", code |-> 401])
  ELSE Answer([op |-> "export", caller |-> caller, code |-> 200,
               rows |-> {CsvRow(a) : a \in getApplications([status |-> "", programId |-> 0,
                                                             search |-> <<>>])}])

Next ==
  \/ \E cred \in Credentials : Login(cred)
  \/ Logout
  \/ \E caller \in Callers : ProgramsCreate(caller, [name |-> "Second Program", regionLabel |-> "County"])
  \/ \E caller \in Callers, body \in LimitBodies : IncomeLimitsCreate(caller, 1, body)
  \/ \E body \in StartBodies : Start(body)
  \/ \E token \in Tokens : GetByToken(token)
  \/ \E token \in Tokens : WizardPage(token)
  \/ \E token \in Tokens : UpdateByToken(token)
  \/ \E token \in Tokens, hasFile \in BOOLEAN : Upload(token, hasFile)
  \/ \E token \in Tokens : SubmitByToken(token)
  \/ \E caller \in Callers : ApplicationsList(caller)
  \/ \E caller \in Callers : ApplicationsGet(caller)
  \/ \E caller \in Callers : Decision(caller)
  \/ \E caller \in Callers : Export(caller)

Spec == Init /\ [][Next]_vars

----------------------------------------------------------------------------
(* Properties *)

\* a step that is the answer to a request of the given kind
Served(op) == last'.op = op

\* the income limits stored for a program and household size
LimitsFor(programId, size) ==
  {l \in Range(incomeLimits) : l.programId = programId /\ l.householdSize = size}

HouseholdSet(app) == app.householdSize # Null /\ app.householdSize # Some(0)

\* the case of C1: household size set, income given, and a limit stored
LimitApplies(app) ==
  /\ HouseholdSet(app)
  /\ app.annualIncomeCents # Null
  /\ LimitsFor(app.programId, app.householdSize[1]) # {}

\* C1: a submit of an application whose household size is set (not null, not
\* zero), whose income is not null and for which an income limit is stored
\* records that limit's limitCents and versionLabel, and records Eligible
\* when the income is at most the limit (equal included), NotEligible when
\* it is above.
C1_SubmitEligibility ==
  [][(Served("submitByToken") /\ last'.code = 200 /\ LimitApplies(applications[last'.id]))
       => LET before == applications[last'.id]
              after == applications'[last'.id]
          IN  \E l \in LimitsFor(before.programId, before.householdSize[1]) :
                /\ after.computedLimitCents = Some(l.limitCents)
                /\ after.ruleVersion = Some(l.versionLabel)
                /\ (before.annualIncomeCents[1] <= l.limitCents
                      => after.systemResult = Some("Eligible"))
                /\ (before.annualIncomeCents[1] > l.limitCents
                      => after.systemResult = Some("NotEligible"))]_vars

\* an application was submitted with an income exactly at its limit and is Eligible
C1_Witness ==
  /\ last.op = "submitByToken" /\ last.code = 200
  /\ LET app == applications[last.id]
     IN  /\ HouseholdSet(app)
         /\ app.annualIncomeCents # Null
         /\ app.annualIncomeCents = app.computedLimitCents
         /\ app.systemResult = Some("Eligible")
         /\ app.ruleVersion = Some("2024-V1")

\* C2: a submit of an existing application is answered 200; when the
\* application has no household size, or no income, or no limit is stored
\* for its program and household size, the application becomes Submitted
\* with submittedAt set, systemResult NeedsReview, and computedLimitCents and
\* ruleVersion null.
C2_SubmitNullCheck ==
  [][Served("submitByToken")
       => /\ last'.code = 200 <=> (\E i \in DOMAIN applications :
                                      applications[i].applicantToken = last'.token)
          /\ last'.code # 200 => last'.code = 404 /\ db' = db
          /\ (last'.code = 200 /\ ~LimitApplies(applications[last'.id]))
               => LET after == applications'[last'.id]
                  IN  /\ after.status = "Submitted"
                      /\ after.submittedAt # Null
                      /\ after.systemResult = Some("NeedsReview")
                      /\ after.computedLimitCents = Null
                      /\ after.ruleVersion = Null]_vars

\* an application with household size and income, for a program that has no
\* limit for that size, was submitted and is NeedsReview
C2_Witness ==
  /\ last.op = "submitByToken" /\ last.code = 200
  /\ LET app == applications[last.id]
     IN  /\ app.householdSize = Some(1)
         /\ app.programId = 2
         /\ app.annualIncomeCents # Null
         /\ app.status = "Submitted"
         /\ app.submittedAt # Null
         /\ app.systemResult = Some("NeedsReview")
         /\ app.computedLimitCents = Null

\* C3: in every reachable state the status of every application is one of
\* Draft, Submitted, NeedsInfo, Approved, Denied.
C3_StatusDomain ==
  \A i \in DOMAIN applications :
    applications[i].status \in {"Draft", "Submitted", "NeedsInfo", "Approved", "Denied"}

\* C4: a decision takes effect only on an application that has been
\* submitted: the application it is recorded on has submittedAt set and is
\* not a Draft.
C4_DecisionOnlyOnSubmitted ==
  [][(Served("decision") /\ last'.code = 200)
       => /\ applications[last'.id].submittedAt # Null
          /\ applications[last'.id].status # "Draft"]_vars

ServerOwned(app) ==
  <<app.applicantToken, app.systemResult, app.computedLimitCents, app.ruleVersion,
    app.submittedAt>>

\* C5: no updateByToken request changes applicantToken, systemResult,
\* computedLimitCents, ruleVersion or submittedAt of an application.
C5_ServerOwnedFields ==
  [][Served("updateByToken")
       => \A i \in DOMAIN applications :
            ServerOwned(applications'[i]) = ServerOwned(applications[i])]_vars

ValidDecision(body) ==
  body.status \in {"Approved", "Denied", "NeedsInfo"} /\ body.note # ""

\* C7: a decision request whose status is not Approved, Denied or NeedsInfo,
\* or whose note is empty, changes no application's status or reviewedBy and
\* appends no activity event.
C7_DecisionInputContract ==
  [][(Served("decision") /\ last'.code = 200 /\ ~ValidDecision(last'.body))
       => /\ \A i \in DOMAIN applications :
               /\ applications'[i].status = applications[i].status
               /\ applications'[i].reviewedBy = applications[i].reviewedBy
          /\ activityEvents' = activityEvents]_vars

ReviewerOps == {"list", "get", "decision", "export", "programs.create", "incomeLimits.create"}

\* C8: application list, application get, decision, export, program create
\* and income-limit create, requested without an authenticated session, are
\* answered 401 and change nothing that is stored: an answer other than 401
\* goes to the browser whose session is logged in, and a 401 writes nothing.
C8_ReviewerOnly ==
  [][last'.op \in ReviewerOps
       => /\ last'.code # 401 => (last'.caller = "browser" /\ session # Null)
          /\ last'.code = 401 => db' = db]_vars

\* a decision on an existing application was refused with 401
C8_Witness ==
  /\ last.op = "decision" /\ last.code = 401
  /\ applications # <<>>

\* C9: a valid start request is answered 201 with the id and token of exactly
\* one new application, which has the programId, applicantName and
\* applicantEmail of the request, status Draft and systemResult NeedsReview;
\* the applications that existed are unchanged.  getByToken answers 200 with
\* the application that holds the token, 404 when none does.
C9_Start ==
  [][/\ (Served("start") /\ last'.body.programId # Null
                         /\ last'.body.applicantName # <<>>
                         /\ last'.body.applicantEmail \in WellFormedEmails)
          => /\ last'.code = 201
             /\ Len(applications') = Len(applications) + 1
             /\ \A i \in DOMAIN applications : applications'[i] = applications[i]
             /\ LET new == applications'[Len(applications')]
                IN  /\ new.id = last'.id
                    /\ new.applicantToken = last'.token
                    /\ new.programId = last'.body.programId[1]
                    /\ new.applicantName = last'.body.applicantName
                    /\ new.applicantEmail = last'.body.applicantEmail
                    /\ new.status = "Draft"
                    /\ new.systemResult = Some("NeedsReview")
             /\ UNCHANGED <<users, programs, incomeLimits, documents, activityEvents>>
     /\ Served("getByToken")
          => IF \E i \in DOMAIN applications : applications[i].applicantToken = last'.token
             THEN /\ last'.code = 200
                  /\ \E i \in DOMAIN applications :
                       /\ applications[i].applicantToken = last'.token
                       /\ last'.app = applications[i]
             ELSE last'.code = 404]_vars

\* a second application was started and the first is still there
C9_Witness ==
  /\ last.op = "start" /\ last.code = 201
  /\ Len(applications) = 2
  /\ last.id = 2
  /\ applications[2].applicantToken = last.token
  /\ applications[1].applicantToken # last.token

\* C10: no two applications have the same applicantToken.
C10_TokenUnique ==
  \A i, j \in DOMAIN applications :
    i # j => applications[i].applicantToken # applications[j].applicantToken

\* an update that would give an application the token of another was rejected
C10_Witness ==
  /\ last.op = "updateByToken" /\ last.code = 500
  /\ \E j \in DOMAIN applications :
       j # last.id /\ applications[j].applicantToken = last.body.applicantToken

\* C11: there is at most one income limit per (programId, householdSize), so
\* the row getIncomeLimitForHousehold finds is determined by program and size.
C11_OneLimitPerHousehold ==
  \A l1, l2 \in Range(incomeLimits) :
    (l1.programId = l2.programId /\ l1.householdSize = l2.householdSize) => l1 = l2

\* C12: for a submitted application, the incomeLimitSnapshot of the
\* reviewer's application get is the limit of the system calculation: it is
\* null exactly when computedLimitCents is null, and otherwise its limitCents
\* is computedLimitCents and its versionLabel is ruleVersion.
C12_LimitSnapshot ==
  [][(Served("get") /\ last'.code = 200 /\ last'.app.submittedAt # Null)
       => LET app == last'.app
              snapshot == last'.incomeLimitSnapshot
          IN  IF snapshot = Null \/ app.computedLimitCents = Null
              THEN snapshot = Null /\ app.computedLimitCents = Null
              ELSE /\ Some(snapshot[1].limitCents) = app.computedLimitCents
                   /\ Some(snapshot[1].versionLabel) = app.ruleVersion]_vars

\* C13: an authenticated decision on an existing application sets the
\* application's status to the decided status and reviewedBy to the deciding
\* user, and appends exactly one activity event for that application, created
\* by that user, whose message contains the status and the note and whose type
\* is RequestInfo when the status is NeedsInfo and StatusChange otherwise.
C13_DecisionRecorded ==
  [][(Served("decision") /\ last'.code = 200)
       => LET id == last'.id
              body == last'.body
              user == session[1]
              event == activityEvents'[Len(activityEvents')]
          IN  /\ applications'[id].status = body.status
              /\ applications'[id].reviewedBy = Some(user)
              /\ Len(activityEvents') = Len(activityEvents) + 1
              /\ SubSeq(activityEvents', 1, Len(activityEvents)) = activityEvents
              /\ event.applicationId = id
              /\ event.createdByUserId = Some(user)
              /\ \E i \in DOMAIN event.message : event.message[i] = body.status
              /\ \E i \in DOMAIN event.message : event.message[i] = body.note
              /\ event.type = "RequestInfo" <=> body.status = "NeedsInfo"
              /\ event.type = "StatusChange" <=> body.status # "NeedsInfo"]_vars

\* a reviewer asked for more information on a submitted application
C13_Witness ==
  /\ last.op = "decision" /\ last.code = 200
  /\ last.body.status = "NeedsInfo"
  /\ applications[last.id].status = "NeedsInfo"
  /\ applications[last.id].submittedAt # Null
  /\ activityEvents[Len(activityEvents)].type = "RequestInfo"

\* who created the events: nobody the System ones, a user the decisions
EventAuthors ==
  \A e \in Range(activityEvents) :
    /\ e.type = "System" => e.createdByUserId = Null
    /\ e.type \in {"RequestInfo", "StatusChange"} => e.createdByUserId # Null

\* C14: a successful submit appends exactly one activity event to that
\* application, of type System, with createdByUserId null and a message
\* naming the computed systemResult; and in every reachable state every
\* System event has a null createdByUserId and every RequestInfo or
\* StatusChange event a non-null one.
C14_SystemEvents ==
  /\ []EventAuthors
  /\ [][(Served("submitByToken") /\ last'.code = 200)
          => LET id == last'.id
                 event == activityEvents'[Len(activityEvents')]
             IN  /\ Len(activityEvents') = Len(activityEvents) + 1
                 /\ SubSeq(activityEvents', 1, Len(activityEvents)) = activityEvents
                 /\ event.applicationId = id
                 /\ event.type = "System"
                 /\ event.createdByUserId = Null
                 /\ \E i \in DOMAIN event.message :
                      Some(event.message[i]) = applications'[id].systemResult]_vars

\* an application with a decision in its history was submitted
C14_Witness ==
  /\ last.op = "submitByToken" /\ last.code = 200
  /\ activityEvents[Len(activityEvents)].type = "System"
  /\ activityEvents[Len(activityEvents)].applicationId = last.id
  /\ \E e \in Range(activityEvents) :
       e.applicationId = last.id /\ e.type \in {"RequestInfo", "StatusChange"}

====
